---- MODULE Spec2Model ----
(***************************************************************************)
(* Model of the two terminal chat clients of the repository:              *)
(*   src/app.py          GitHub tools behind a Mistral tool-call dispatcher*)
(*   src/unified_app.py  GitHub, Jira, Confluence and Slack tools, plus    *)
(*                       local Slack command shortcuts in the CLI loop     *)
(*                                                                         *)
(* A Python str is a sequence of pieces.  Text the program inspects        *)
(* (input lines, channel names) is held one character per piece; the       *)
(* literal text of a result is held in pieces cut so that the prefix       *)
(* "Error:" is the two pieces "Error", ":"; data coming from a remote      *)
(* service (a URL, str(e), a listing) is one opaque piece.                 *)
(***************************************************************************)
EXTENDS Integers, Sequences, FiniteSets, TLC

VARIABLES
    app,         \* which program runs: "app.py" or "unified_app.py"
    pc,          \* position of main(): "input", "branch", "print", "exited", "crashed"
    user_input,  \* the line last returned by input()
    requests,    \* requests sent to the language model during the current turn
    llm,         \* what client.chat.complete gave in the current turn
    invoked,     \* handler bodies entered during the current turn, with their keywords
    handler_result, \* what the turn's handler call evaluated to: a value or an exception
    remote,      \* calls into remote-service clients during the current turn
    response,    \* the value main() holds in its local variable `response`
    output,      \* what the current turn printed as its result
    turn         \* how many lines input() has returned so far

vars == <<app, pc, user_input, requests, llm, invoked, handler_result, remote, response, output,
          turn>>

-----------------------------------------------------------------------------
(* Bounds of the model *)

\* longest tool_calls list a model response carries
MaxToolCalls == 2

\* number of lines read from the terminal in a run
MaxTurns == 2

-----------------------------------------------------------------------------
(* Python str operations, on sequences of pieces *)

UpperCase == <<"A","B","C","D","E","F","G","H","I","J","K","L","M",
               "N","O","P","Q","R","S","T","U","V","W","X","Y","Z">>
LowerCase == <<"a","b","c","d","e","f","g","h","i","j","k","l","m",
               "n","o","p","q","r","s","t","u","v","w","x","y","z">>

\* the lower-case letter of each upper-case letter
LowerOf == [c \in {UpperCase[i] : i \in 1..Len(UpperCase)} |->
              LowerCase[CHOOSE i \in 1..Len(UpperCase) : UpperCase[i] = c]]

LowerChar(c) == IF c \in DOMAIN LowerOf THEN LowerOf[c] ELSE c

\* str.lower()
lower(s) == [i \in 1..Len(s) |-> LowerChar(s[i])]

\* str.startswith(prefix)
startswith(s, prefix) ==
    /\ Len(prefix) <= Len(s)
    /\ SubSeq(s, 1, Len(prefix)) = prefix

\* index of the first occurrence of sub in s at or after position from, 0 if none
\* (str.find, 1-based)
find(s, sub, from) ==
    LET hits == {i \in from..(Len(s) - Len(sub) + 1) : SubSeq(s, i, i + Len(sub) - 1) = sub}
    IN  IF hits = {} THEN 0 ELSE CHOOSE i \in hits : \A j \in hits : i <= j

\* str.split(sep, maxsplit); maxsplit = -1 is "no limit"
RECURSIVE split(_, _, _)
split(s, sep, maxsplit) ==
    LET i == find(s, sep, 1)
    IN  IF maxsplit = 0 \/ i = 0
        THEN <<s>>
        ELSE <<SubSeq(s, 1, i - 1)>>
             \o split(SubSeq(s, i + Len(sep), Len(s)), sep,
                      IF maxsplit < 0 THEN maxsplit ELSE maxsplit - 1)

\* str.replace(old, new), old not empty
RECURSIVE replace(_, _, _)
replace(s, old, new) ==
    LET i == find(s, old, 1)
    IN  IF i = 0
        THEN s
        ELSE SubSeq(s, 1, i - 1) \o new
             \o replace(SubSeq(s, i + Len(old), Len(s)), old, new)

Whitespace == {" ", "\t"}

\* str.lstrip(chars)
RECURSIVE lstrip(_, _)
lstrip(s, chars) ==
    IF s # <<>> /\ s[1] \in chars THEN lstrip(Tail(s), chars) ELSE s

\* str.rstrip(chars)
RECURSIVE rstrip(_, _)
rstrip(s, chars) ==
    IF s # <<>> /\ s[Len(s)] \in chars THEN rstrip(SubSeq(s, 1, Len(s) - 1), chars) ELSE s

\* str.strip()
strip(s) == rstrip(lstrip(s, Whitespace), Whitespace)

\* str.split() with no separator: the maximal runs of non-whitespace
RECURSIVE split_ws(_)
split_ws(s) ==
    LET t == lstrip(s, Whitespace)
        ends == {i \in 1..Len(t) : t[i] \in Whitespace}
        e == IF ends = {} THEN Len(t) + 1 ELSE CHOOSE i \in ends : \A j \in ends : i <= j
    IN  IF t = <<>>
        THEN <<>>
        ELSE <<SubSeq(t, 1, e - 1)>> \o split_ws(SubSeq(t, e, Len(t)))

Digits == <<"0","1","2","3","4","5","6","7","8","9">>

DigitVal(c) == (CHOOSE i \in 1..Len(Digits) : Digits[i] = c) - 1

IsDigit(c) == \E i \in 1..Len(Digits) : Digits[i] = c

\* int(s) accepts an optional sign followed by decimal digits
int_ok(s) ==
    LET body == IF s # <<>> /\ s[1] \in {"+", "-"} THEN Tail(s) ELSE s
    IN  body # <<>> /\ \A i \in 1..Len(body) : IsDigit(body[i])

RECURSIVE int_digits(_)
int_digits(s) ==
    IF s = <<>> THEN 0 ELSE 10 * int_digits(SubSeq(s, 1, Len(s) - 1)) + DigitVal(s[Len(s)])

\* int(s) for an s that int_ok accepts
int(s) ==
    IF s[1] = "-" THEN 0 - int_digits(Tail(s))
    ELSE IF s[1] = "+" THEN int_digits(Tail(s))
    ELSE int_digits(s)

-----------------------------------------------------------------------------
(* Input lines the user may type, one character per piece *)

InputLines == {
    \* "quit": main: a quit token
    <<"q","u","i","t">>,
    \* "QUIT": a quit token in upper case
    <<"Q","U","I","T">>,
    \* "Exit": a quit token in mixed case
    <<"E","x","i","t">>,
    \* "q": the shortest quit token
    <<"q">>,
    \* "hello": free text
    <<"h","e","l","l","o">>,
    \* "quit now": free text that starts with a quit token
    <<"q","u","i","t"," ","n","o","w">>,
    \* "list channels": shortcut
    <<"l","i","s","t"," ","c","h","a","n","n","e","l","s">>,
    \* "List Channels": shortcut in mixed case
    <<"L","i","s","t"," ","C","h","a","n","n","e","l","s">>,
    \* "list channels please": free text that starts like a shortcut
    <<"l","i","s","t"," ","c","h","a","n","n","e","l","s"," ","p","l","e","a","s","e">>,
    \* "send message hi to dev": shortcut, well formed
    <<"s","e","n","d"," ","m","e","s","s","a","g","e"," ","h","i"," ","t","o"," ","d","e","v">>,
    \* "send message hi": shortcut without separator
    <<"s","e","n","d"," ","m","e","s","s","a","g","e"," ","h","i">>,
    \* "Send Message hi to dev": shortcut in mixed case
    <<"S","e","n","d"," ","M","e","s","s","a","g","e"," ","h","i"," ","t","o"," ","d","e","v">>,
    \* "send message go to it to dev": shortcut whose text holds the separator
    <<"s","e","n","d"," ","m","e","s","s","a","g","e"," ","g","o"," ","t","o"," ","i","t"," ","t","o"," ","d","e","v">>,
    \* "reply ok to thread 12 in dev": shortcut, well formed
    <<"r","e","p","l","y"," ","o","k"," ","t","o"," ","t","h","r","e","a","d"," ","1","2"," ","i","n"," ","d","e","v">>,
    \* "reply ok": shortcut without thread
    <<"r","e","p","l","y"," ","o","k">>,
    \* "reply ok to thread 12": shortcut without channel
    <<"r","e","p","l","y"," ","o","k"," ","t","o"," ","t","h","r","e","a","d"," ","1","2">>,
    \* "reply no reply to thread 12 in dev": shortcut whose text holds the word "reply"
    <<"r","e","p","l","y"," ","n","o"," ","r","e","p","l","y"," ","t","o"," ","t","h","r","e","a","d"," ","1","2"," ","i","n"," ","d","e","v">>,
    \* "reply go in now to thread 12 in dev": shortcut whose text holds " in "
    <<"r","e","p","l","y"," ","g","o"," ","i","n"," ","n","o","w"," ","t","o"," ","t","h","r","e","a","d"," ","1","2"," ","i","n"," ","d","e","v">>,
    \* "add reaction up to message 12 in dev": shortcut, well formed
    <<"a","d","d"," ","r","e","a","c","t","i","o","n"," ","u","p"," ","t","o"," ","m","e","s","s","a","g","e"," ","1","2"," ","i","n"," ","d","e","v">>,
    \* "add reaction up": shortcut without message
    <<"a","d","d"," ","r","e","a","c","t","i","o","n"," ","u","p">>,
    \* "show history dev": shortcut, default limit
    <<"s","h","o","w"," ","h","i","s","t","o","r","y"," ","d","e","v">>,
    \* "show history dev 5": shortcut with a limit
    <<"s","h","o","w"," ","h","i","s","t","o","r","y"," ","d","e","v"," ","5">>,
    \* "show history": shortcut without channel
    <<"s","h","o","w"," ","h","i","s","t","o","r","y">>,
    \* "show history dev x": shortcut with a limit that is no number
    <<"s","h","o","w"," ","h","i","s","t","o","r","y"," ","d","e","v"," ","x">>
}

\* literal texts main() compares the input with
S_quit == <<"q","u","i","t">>
S_exit == <<"e","x","i","t">>
S_q == <<"q">>
S_list_channels == <<"l","i","s","t"," ","c","h","a","n","n","e","l","s">>
S_send_message == <<"s","e","n","d"," ","m","e","s","s","a","g","e">>
S_reply == <<"r","e","p","l","y">>
S_add_reaction == <<"a","d","d"," ","r","e","a","c","t","i","o","n">>
S_show_history == <<"s","h","o","w"," ","h","i","s","t","o","r","y">>
S_to == <<" ","t","o"," ">>
S_to_thread == <<" ","t","o"," ","t","h","r","e","a","d"," ">>
S_to_message == <<" ","t","o"," ","m","e","s","s","a","g","e"," ">>
S_in == <<" ","i","n"," ">>

-----------------------------------------------------------------------------
(* Python values *)

\* the value None and a str s, as main() and get_ai_response pass them around
NoneValue == [type |-> "NoneType", str |-> <<>>]
Str(s) == [type |-> "str", str |-> s]

\* a dict with no key
EmptyDict == [k \in {} |-> 0]

\* an exception object; msg is str(e)
Exc(t, error) == [type |-> t, error |-> error, msg |-> <<"<str(e)>">>]
NoExc == [type |-> "", error |-> "", msg |-> <<>>]

\* exception types that `except SlackApiError` catches
IsSlackApiError(e) == e.type = "SlackApiError"

\* exception types that `except Exception` catches: all but BaseException's own
IsException(e) == e.type \notin {"KeyboardInterrupt", "SystemExit", "GeneratorExit"}

-----------------------------------------------------------------------------
(* What a call into a remote-service client can do *)

\* the call returns; for Slack, the returned payload says ok
OK == [kind |-> "ok", exc |-> NoExc]
\* the Slack call returns a payload whose 'ok' is false
NotOK == [kind |-> "not_ok", exc |-> NoExc]
Raises(e) == [kind |-> "raise", exc |-> e]

\* slack_sdk raises SlackApiError for an API error and lets transport errors
\* (urllib's URLError) through
SlackOutcomes ==
    {OK, NotOK,
     Raises(Exc("SlackApiError", "channel_not_found")),
     Raises(Exc("SlackApiError", "not_in_channel")),
     Raises(Exc("SlackApiError", "ratelimited")),
     Raises(Exc("URLError", ""))}

GithubOutcomes == {OK, Raises(Exc("GithubException", ""))}

AtlassianOutcomes == {OK, Raises(Exc("HTTPError", ""))}

\* the Mistral client returns a response or raises
MistralFailure == Exc("MistralError", "")

\* one call into a remote-service client, as the turn's log keeps it
RemoteCall(api, args, outcome) == [api |-> api, args |-> args, outcome |-> outcome]

\* what evaluating a handler call gives: the remote calls it made, and either the
\* value it returned or the exception it let through
Return(calls, s) == [calls |-> calls, raised |-> FALSE, value |-> Str(s), exc |-> NoExc]
Raise(calls, e) == [calls |-> calls, raised |-> TRUE, value |-> NoneValue, exc |-> e]

\* f"Error: {str(e)}"
ErrorString(e) == <<"Error", ":", " ">> \o e.msg

-----------------------------------------------------------------------------
(* Keyword arguments and signatures *)

\* def f(a, b, c=x): the parameter names in order and the defaults
Signature(params, defaults) == [params |-> params, defaults |-> defaults]

ParamSet(sig) == {sig.params[i] : i \in 1..Len(sig.params)}

Required(sig) == ParamSet(sig) \ DOMAIN sig.defaults

\* Binds, were unknown keywords ignored instead of rejected
Binds_lenient(sig, kwargs) == Required(sig) \subseteq DOMAIN kwargs

\* f(**kwargs) binds: every required parameter is given and every keyword is a parameter
Binds(sig, kwargs) ==
    /\ Required(sig) \subseteq DOMAIN kwargs
    /\ DOMAIN kwargs \subseteq ParamSet(sig)

\* the parameter values of the call f(**kwargs), defaults filled in
Bound(sig, kwargs) ==
    [p \in ParamSet(sig) |-> IF p \in DOMAIN kwargs THEN kwargs[p] ELSE sig.defaults[p]]

\* the keyword form of the positional call f(a1, ..., an)
Positional(sig, args) == [p \in {sig.params[i] : i \in 1..Len(args)} |->
                            args[CHOOSE i \in 1..Len(args) : sig.params[i] = p]]

-----------------------------------------------------------------------------
(* unified_app.py: the operation handlers.                                 *)
(* Each takes the bound parameters p and the environment env of the call:  *)
(* env.o1 and env.o2 are what the first and the second remote call do.     *)

\* min, were the limit passed on as given
min_uncapped(a, b) == a

\* Python's min of two integers
min(a, b) == IF a <= b THEN a ELSE b

\* try: ... except Exception as e: return f"Error: {str(e)}"
ExceptException(calls, e) ==
    IF IsException(e) THEN Return(calls, ErrorString(e)) ELSE Raise(calls, e)

\* try: ... except SlackApiError as e: return f"Error: {str(e)}"
ExceptSlackApiError(calls, e) ==
    IF IsSlackApiError(e) THEN Return(calls, ErrorString(e)) ELSE Raise(calls, e)

unified_create_repository(p, env) ==
    LET c1 == RemoteCall("gh.get_user", EmptyDict, env.o1)
        c2 == RemoteCall("user.create_repo",
                         [name |-> p.name, description |-> p.description,
                          private |-> p.private], env.o2)
    IN  IF env.o1.kind = "raise" THEN ExceptException(<<c1>>, env.o1.exc)
        ELSE IF env.o2.kind = "raise" THEN ExceptException(<<c1, c2>>, env.o2.exc)
        ELSE Return(<<c1, c2>>, <<"Repository created: ", "<repo.html_url>">>)

unified_list_repositories(p, env) ==
    LET c1 == RemoteCall("gh.get_user", [login |-> p.username], env.o1)
        c2 == RemoteCall("user.get_repos", EmptyDict, env.o2)
    IN  IF env.o1.kind = "raise" THEN ExceptException(<<c1>>, env.o1.exc)
        ELSE IF env.o2.kind = "raise" THEN ExceptException(<<c1, c2>>, env.o2.exc)
        ELSE Return(<<c1, c2>>, <<"<repository lines>">>)

unified_create_jira_issue(p, env) ==
    LET c1 == RemoteCall("jira.create_issue",
                         [project |-> p.project_key, summary |-> p.summary,
                          description |-> p.description, issuetype |-> p.issue_type],
                         env.o1)
    IN  IF env.o1.kind = "raise" THEN ExceptException(<<c1>>, env.o1.exc)
        ELSE Return(<<c1>>, <<"Issue created: ", "<issue key>">>)

\* list_jira_projects, were a failed call tried a second time
unified_list_jira_projects_retry(p, env) ==
    LET c1 == RemoteCall("jira.projects", EmptyDict, env.o1)
        c2 == RemoteCall("jira.projects", EmptyDict, env.o2)
    IN  IF env.o1.kind # "raise" THEN Return(<<c1>>, <<"<project lines>">>)
        ELSE IF env.o2.kind = "raise" THEN ExceptException(<<c1, c2>>, env.o2.exc)
        ELSE Return(<<c1, c2>>, <<"<project lines>">>)

unified_list_jira_projects(p, env) ==
    LET c1 == RemoteCall("jira.projects", EmptyDict, env.o1)
    IN  IF env.o1.kind = "raise" THEN ExceptException(<<c1>>, env.o1.exc)
        ELSE Return(<<c1>>, <<"<project lines>">>)

unified_create_confluence_page(p, env) ==
    LET c1 == RemoteCall("confluence.create_page",
                         [space |-> p.space_key, title |-> p.title, body |-> p.content],
                         env.o1)
    IN  IF env.o1.kind = "raise" THEN ExceptException(<<c1>>, env.o1.exc)
        ELSE Return(<<c1>>, <<"Page created in space ">> \o p.space_key)

unified_list_confluence_spaces(p, env) ==
    LET c1 == RemoteCall("confluence.get_all_spaces", EmptyDict, env.o1)
    IN  IF env.o1.kind = "raise" THEN ExceptException(<<c1>>, env.o1.exc)
        ELSE Return(<<c1>>, <<"<space lines>">>)

\* lines 435-444: except SlackApiError ... except Exception
ExceptSlackThenException(calls, e, not_found, not_in_channel) ==
    IF IsSlackApiError(e)
    THEN IF e.error = "channel_not_found" THEN Return(calls, <<"Error", ":">> \o not_found)
         ELSE IF e.error = "not_in_channel" THEN Return(calls, <<"Error", ":">> \o not_in_channel)
         ELSE Return(calls, <<"Slack API Error", ":", " ", e.error>>)
    ELSE ExceptException(calls, e)

\* unified_send_slack_message, were the message posted without looking at what
\* conversations_open reported
unified_send_slack_message_unchecked(p, env) ==
    LET dm == startswith(p.channel, <<"D">>)
        c_open == RemoteCall("slack_client.conversations_open", [users |-> <<p.channel>>], env.o1)
        channel_id == IF dm /\ env.o1.kind = "ok" THEN <<"<conversation.channel.id>">> ELSE p.channel
        o_post == IF dm THEN env.o2 ELSE env.o1
        c_post == RemoteCall("slack_client.chat_postMessage",
                             [channel |-> channel_id, text |-> p.text], o_post)
        before == IF dm THEN <<c_open>> ELSE <<>>
    IN  IF dm /\ env.o1.kind = "raise" THEN ExceptException(<<c_open>>, env.o1.exc)
        ELSE IF o_post.kind = "raise" THEN ExceptException(before \o <<c_post>>, o_post.exc)
        ELSE IF o_post.kind = "ok" THEN Return(before \o <<c_post>>, <<"Message sent successfully">>)
        ELSE Return(before \o <<c_post>>, <<"Error", " sending message", ":", " ", "<error>">>)

\* lines 410-444
unified_send_slack_message(p, env) ==
    LET dm == startswith(p.channel, <<"D">>)
        c_open == RemoteCall("slack_client.conversations_open", [users |-> <<p.channel>>], env.o1)
        channel_id == IF dm THEN <<"<conversation.channel.id>">> ELSE p.channel
        o_post == IF dm THEN env.o2 ELSE env.o1
        c_post == RemoteCall("slack_client.chat_postMessage",
                             [channel |-> channel_id, text |-> p.text], o_post)
        before == IF dm THEN <<c_open>> ELSE <<>>
        caught(calls, e) ==
            ExceptSlackThenException(calls, e,
                <<" Channel or user not found. Please check the channel ID or user ID.">>,
                <<" Bot is not in this channel. Please add the bot to the channel first.">>)
    IN  IF dm /\ env.o1.kind = "raise" THEN caught(<<c_open>>, env.o1.exc)
        ELSE IF dm /\ env.o1.kind = "not_ok"
        THEN Return(<<c_open>>, <<"Error", " opening conversation", ":", " ", "<error>">>)
        ELSE IF o_post.kind = "raise" THEN caught(before \o <<c_post>>, o_post.exc)
        ELSE IF o_post.kind = "ok" THEN Return(before \o <<c_post>>, <<"Message sent successfully">>)
        ELSE Return(before \o <<c_post>>, <<"Error", " sending message", ":", " ", "<error>">>)

unified_upload_file_to_slack(p, env) ==
    LET c1 == RemoteCall("slack_client.files_upload",
                         [channels |-> p.channels, file |-> p.filepath], env.o1)
    IN  IF env.o1.kind = "raise" THEN ExceptSlackApiError(<<c1>>, env.o1.exc)
        ELSE Return(<<c1>>, <<"File uploaded to ">> \o p.channels)

unified_slack_get_thread_replies(p, env) ==
    LET c1 == RemoteCall("slack_client.conversations_replies",
                         [channel |-> p.channel_id, ts |-> p.thread_ts], env.o1)
    IN  IF env.o1.kind = "raise" THEN ExceptSlackApiError(<<c1>>, env.o1.exc)
        ELSE IF env.o1.kind = "ok" THEN Return(<<c1>>, <<"<reply lines>">>)
        ELSE Return(<<c1>>, <<"Error", " getting replies", ":", " ", "<error>">>)

unified_slack_get_users(p, env) ==
    LET c1 == RemoteCall("slack_client.users_list", [limit |-> min(p.limit, 200)], env.o1)
    IN  IF env.o1.kind = "raise" THEN ExceptSlackApiError(<<c1>>, env.o1.exc)
        ELSE IF env.o1.kind = "ok" THEN Return(<<c1>>, <<"<user lines>">>)
        ELSE Return(<<c1>>, <<"Error", " listing users", ":", " ", "<error>">>)

unified_slack_get_user_profile(p, env) ==
    LET c1 == RemoteCall("slack_client.users_info", [user |-> p.user_id], env.o1)
    IN  IF env.o1.kind = "raise" THEN ExceptSlackApiError(<<c1>>, env.o1.exc)
        ELSE IF env.o1.kind = "ok" THEN Return(<<c1>>, <<"User Profile:", "<profile lines>">>)
        ELSE Return(<<c1>>, <<"Error", " getting profile", ":", " ", "<error>">>)

unified_slack_list_channels(p, env) ==
    LET c1 == RemoteCall("slack_client.conversations_list", [limit |-> min(p.limit, 200)], env.o1)
    IN  IF env.o1.kind = "raise" THEN ExceptSlackApiError(<<c1>>, env.o1.exc)
        ELSE IF env.o1.kind = "ok" THEN Return(<<c1>>, <<"<channel lines>">>)
        ELSE Return(<<c1>>, <<"Error", " listing channels", ":", " ", "<error>">>)

unified_slack_post_message(p, env) ==
    LET channel_id == IF ~startswith(p.channel_id, <<"C">>)
                      THEN lstrip(p.channel_id, {"#"})
                      ELSE p.channel_id
        c1 == RemoteCall("slack_client.chat_postMessage",
                         [channel |-> channel_id, text |-> p.text], env.o1)
    IN  IF env.o1.kind = "raise"
        THEN ExceptSlackThenException(<<c1>>, env.o1.exc,
                <<" Channel not found. Please check the channel name.">>,
                <<" Bot is not in this channel. Please add the bot using '/invite @your_bot_name'">>)
        ELSE IF env.o1.kind = "ok"
        THEN Return(<<c1>>, <<"Message posted successfully (ts: ", "<ts>", ")">>)
        ELSE Return(<<c1>>, <<"Error", " posting message", ":", " ", "<error>">>)

unified_slack_reply_to_thread(p, env) ==
    LET c1 == RemoteCall("slack_client.chat_postMessage",
                         [channel |-> p.channel_id, thread_ts |-> p.thread_ts,
                          text |-> p.text], env.o1)
    IN  IF env.o1.kind = "raise" THEN ExceptSlackApiError(<<c1>>, env.o1.exc)
        ELSE IF env.o1.kind = "ok"
        THEN Return(<<c1>>, <<"Reply posted successfully (ts: ", "<ts>", ")">>)
        ELSE Return(<<c1>>, <<"Error", " posting reply", ":", " ", "<error>">>)

unified_slack_add_reaction(p, env) ==
    LET c1 == RemoteCall("slack_client.reactions_add",
                         [channel |-> p.channel_id, timestamp |-> p.timestamp,
                          name |-> p.reaction], env.o1)
    IN  IF env.o1.kind = "raise" THEN ExceptSlackApiError(<<c1>>, env.o1.exc)
        ELSE IF env.o1.kind = "ok"
        THEN Return(<<c1>>, <<"Reaction '">> \o p.reaction \o <<"' added successfully">>)
        ELSE Return(<<c1>>, <<"Error", " adding reaction", ":", " ", "<error>">>)

unified_slack_get_channel_history(p, env) ==
    LET c1 == RemoteCall("slack_client.conversations_history",
                         [channel |-> p.channel_id, limit |-> p.limit], env.o1)
    IN  IF env.o1.kind = "raise" THEN ExceptSlackApiError(<<c1>>, env.o1.exc)
        ELSE IF env.o1.kind = "ok" THEN Return(<<c1>>, <<"<message lines>">>)
        ELSE Return(<<c1>>, <<"Error", " getting history", ":", " ", "<error>">>)

-----------------------------------------------------------------------------
(* unified_app.py: signatures, the tool catalog, the calls *)

unified_signature(name) ==
    CASE name = "create_repository" ->
            Signature(<<"name", "description", "private">>,
                      [description |-> <<>>, private |-> FALSE])
      [] name = "list_repositories" -> Signature(<<"username">>, EmptyDict)
      [] name = "create_jira_issue" ->
            Signature(<<"project_key", "summary", "description", "issue_type">>,
                      [description |-> <<>>, issue_type |-> <<"T","a","s","k">>])
      [] name = "list_jira_projects" -> Signature(<<>>, EmptyDict)
      [] name = "create_confluence_page" ->
            Signature(<<"space_key", "title", "content">>, EmptyDict)
      [] name = "list_confluence_spaces" -> Signature(<<>>, EmptyDict)
      [] name = "send_slack_message" -> Signature(<<"channel", "text">>, EmptyDict)
      [] name = "upload_file_to_slack" -> Signature(<<"channels", "filepath">>, EmptyDict)
      [] name = "slack_get_thread_replies" ->
            Signature(<<"channel_id", "thread_ts">>, EmptyDict)
      [] name = "slack_get_users" -> Signature(<<"limit">>, [limit |-> 100])
      [] name = "slack_get_user_profile" -> Signature(<<"user_id">>, EmptyDict)
      [] name = "slack_list_channels" -> Signature(<<"limit">>, [limit |-> 100])
      [] name = "slack_post_message" -> Signature(<<"channel_id", "text">>, EmptyDict)
      [] name = "slack_reply_to_thread" ->
            Signature(<<"channel_id", "thread_ts", "text">>, EmptyDict)
      [] name = "slack_add_reaction" ->
            Signature(<<"channel_id", "timestamp", "reaction">>, EmptyDict)
      [] name = "slack_get_channel_history" ->
            Signature(<<"channel_id", "limit">>, [limit |-> 10])

\* the body of the function called `name`
unified_body(name, p, env) ==
    CASE name = "create_repository" -> unified_create_repository(p, env)
      [] name = "list_repositories" -> unified_list_repositories(p, env)
      [] name = "create_jira_issue" -> unified_create_jira_issue(p, env)
      [] name = "list_jira_projects" -> unified_list_jira_projects(p, env)
      [] name = "create_confluence_page" -> unified_create_confluence_page(p, env)
      [] name = "list_confluence_spaces" -> unified_list_confluence_spaces(p, env)
      [] name = "send_slack_message" -> unified_send_slack_message(p, env)
      [] name = "upload_file_to_slack" -> unified_upload_file_to_slack(p, env)
      [] name = "slack_get_thread_replies" -> unified_slack_get_thread_replies(p, env)
      [] name = "slack_get_users" -> unified_slack_get_users(p, env)
      [] name = "slack_get_user_profile" -> unified_slack_get_user_profile(p, env)
      [] name = "slack_list_channels" -> unified_slack_list_channels(p, env)
      [] name = "slack_post_message" -> unified_slack_post_message(p, env)
      [] name = "slack_reply_to_thread" -> unified_slack_reply_to_thread(p, env)
      [] name = "slack_add_reaction" -> unified_slack_add_reaction(p, env)
      [] name = "slack_get_channel_history" -> unified_slack_get_channel_history(p, env)

\* evaluating name(**kwargs): a TypeError when the keywords do not bind, before the
\* body runs; the body otherwise
unified_call(name, kwargs, env) ==
    IF Binds(unified_signature(name), kwargs)
    THEN unified_body(name, Bound(unified_signature(name), kwargs), env)
    ELSE Raise(<<>>, Exc("TypeError", ""))

\* one entry of `tools`: the name, the declared properties, the required ones
Tool(name, properties, required) ==
    [name |-> name, properties |-> properties, required |-> required]

unified_tools == <<
    Tool("create_repository", {"name", "description", "private"}, {"name"}),
    Tool("list_repositories", {"username"}, {"username"}),
    Tool("create_jira_issue", {"project_key", "summary", "description", "issue_type"},
         {"project_key", "summary"}),
    Tool("list_jira_projects", {}, {}),
    Tool("create_confluence_page", {"space_key", "title", "content"},
         {"space_key", "title", "content"}),
    Tool("list_confluence_spaces", {}, {}),
    Tool("send_slack_message", {"channel", "text"}, {"channel", "text"}),
    Tool("upload_file_to_slack", {"channels", "filepath"}, {"channels", "filepath"}),
    Tool("slack_get_thread_replies", {"channel_id", "thread_ts"}, {"channel_id", "thread_ts"}),
    Tool("slack_get_users", {"limit"}, {}),
    Tool("slack_get_user_profile", {"user_id"}, {"user_id"}),
    Tool("slack_list_channels", {"limit"}, {}),
    Tool("slack_post_message", {"channel_id", "text"}, {"channel_id", "text"}),
    Tool("slack_reply_to_thread", {"channel_id", "thread_ts", "text"},
         {"channel_id", "thread_ts", "text"}),
    Tool("slack_add_reaction", {"channel_id", "timestamp", "reaction"},
         {"channel_id", "timestamp", "reaction"}),
    Tool("slack_get_channel_history", {"channel_id", "limit"}, {"channel_id"}) >>

\* one branch of the dispatcher's if/elif chain: `function_name == name` guards a
\* call of `target`, with **function_args or with no argument
Branch(name, target, with_args) == [name |-> name, target |-> target, with_args |-> with_args]

\* the chain, were the list_repositories branch a copy of the branch above it that
\* still calls create_repository
unified_branches_miswired == <<
    Branch("create_repository", "create_repository", TRUE),
    Branch("list_repositories", "create_repository", TRUE),
    Branch("create_jira_issue", "create_jira_issue", TRUE),
    Branch("list_jira_projects", "list_jira_projects", FALSE),
    Branch("create_confluence_page", "create_confluence_page", TRUE),
    Branch("list_confluence_spaces", "list_confluence_spaces", FALSE),
    Branch("send_slack_message", "send_slack_message", TRUE),
    Branch("upload_file_to_slack", "upload_file_to_slack", TRUE),
    Branch("slack_get_thread_replies", "slack_get_thread_replies", TRUE),
    Branch("slack_get_users", "slack_get_users", TRUE),
    Branch("slack_get_user_profile", "slack_get_user_profile", TRUE),
    Branch("slack_list_channels", "slack_list_channels", TRUE),
    Branch("slack_post_message", "slack_post_message", TRUE),
    Branch("slack_reply_to_thread", "slack_reply_to_thread", TRUE),
    Branch("slack_add_reaction", "slack_add_reaction", TRUE),
    Branch("slack_get_channel_history", "slack_get_channel_history", TRUE) >>

\* the chain, were the slack_get_user_profile branch to test the name of the branch
\* above it
unified_branches_duplicate == <<
    Branch("create_repository", "create_repository", TRUE),
    Branch("list_repositories", "list_repositories", TRUE),
    Branch("create_jira_issue", "create_jira_issue", TRUE),
    Branch("list_jira_projects", "list_jira_projects", FALSE),
    Branch("create_confluence_page", "create_confluence_page", TRUE),
    Branch("list_confluence_spaces", "list_confluence_spaces", FALSE),
    Branch("send_slack_message", "send_slack_message", TRUE),
    Branch("upload_file_to_slack", "upload_file_to_slack", TRUE),
    Branch("slack_get_thread_replies", "slack_get_thread_replies", TRUE),
    Branch("slack_get_users", "slack_get_users", TRUE),
    Branch("slack_get_users", "slack_get_user_profile", TRUE),
    Branch("slack_list_channels", "slack_list_channels", TRUE),
    Branch("slack_post_message", "slack_post_message", TRUE),
    Branch("slack_reply_to_thread", "slack_reply_to_thread", TRUE),
    Branch("slack_add_reaction", "slack_add_reaction", TRUE),
    Branch("slack_get_channel_history", "slack_get_channel_history", TRUE) >>

unified_branches == <<
    Branch("create_repository", "create_repository", TRUE),
    Branch("list_repositories", "list_repositories", TRUE),
    Branch("create_jira_issue", "create_jira_issue", TRUE),
    Branch("list_jira_projects", "list_jira_projects", FALSE),
    Branch("create_confluence_page", "create_confluence_page", TRUE),
    Branch("list_confluence_spaces", "list_confluence_spaces", FALSE),
    Branch("send_slack_message", "send_slack_message", TRUE),
    Branch("upload_file_to_slack", "upload_file_to_slack", TRUE),
    Branch("slack_get_thread_replies", "slack_get_thread_replies", TRUE),
    Branch("slack_get_users", "slack_get_users", TRUE),
    Branch("slack_get_user_profile", "slack_get_user_profile", TRUE),
    Branch("slack_list_channels", "slack_list_channels", TRUE),
    Branch("slack_post_message", "slack_post_message", TRUE),
    Branch("slack_reply_to_thread", "slack_reply_to_thread", TRUE),
    Branch("slack_add_reaction", "slack_add_reaction", TRUE),
    Branch("slack_get_channel_history", "slack_get_channel_history", TRUE) >>

-----------------------------------------------------------------------------
(* app.py: the operation handlers, signatures, tool catalog and calls *)

\* try: ... except Exception as e: return f"Error <doing>: {str(e)}"
ExceptExceptionDoing(calls, e, doing) ==
    IF IsException(e)
    THEN Return(calls, <<"Error", doing, ":", " ">> \o e.msg)
    ELSE Raise(calls, e)

app_create_repository(p, env) ==
    LET c1 == RemoteCall("gh.get_user", EmptyDict, env.o1)
        c2 == RemoteCall("user.create_repo",
                         [name |-> p.name, description |-> p.description,
                          private |-> p.private], env.o2)
        doing == " creating repository"
    IN  IF env.o1.kind = "raise" THEN ExceptExceptionDoing(<<c1>>, env.o1.exc, doing)
        ELSE IF env.o2.kind = "raise" THEN ExceptExceptionDoing(<<c1, c2>>, env.o2.exc, doing)
        ELSE Return(<<c1, c2>>, <<"Repository created successfully: ", "<repo.html_url>">>)

app_create_github_issue(p, env) ==
    LET c1 == RemoteCall("gh.get_repo", [full_name |-> p.repo_name], env.o1)
        c2 == RemoteCall("repo.create_issue", [title |-> p.title, body |-> p.body], env.o2)
        doing == " creating issue"
    IN  IF env.o1.kind = "raise" THEN ExceptExceptionDoing(<<c1>>, env.o1.exc, doing)
        ELSE IF env.o2.kind = "raise" THEN ExceptExceptionDoing(<<c1, c2>>, env.o2.exc, doing)
        ELSE Return(<<c1, c2>>, <<"Issue created successfully: ", "<issue.html_url>">>)

app_list_repository_issues(p, env) ==
    LET c1 == RemoteCall("gh.get_repo", [full_name |-> p.repo_name], env.o1)
        c2 == RemoteCall("repo.get_issues", [state |-> <<"o","p","e","n">>], env.o2)
        doing == " listing issues"
    IN  IF env.o1.kind = "raise" THEN ExceptExceptionDoing(<<c1>>, env.o1.exc, doing)
        ELSE IF env.o2.kind = "raise" THEN ExceptExceptionDoing(<<c1, c2>>, env.o2.exc, doing)
        ELSE Return(<<c1, c2>>, <<"<issue lines>">>)

app_list_repositories(p, env) ==
    LET c1 == RemoteCall("gh.get_user", [login |-> p.username], env.o1)
        c2 == RemoteCall("user.get_repos", EmptyDict, env.o2)
        doing == " listing repositories"
    IN  IF env.o1.kind = "raise" THEN ExceptExceptionDoing(<<c1>>, env.o1.exc, doing)
        ELSE IF env.o2.kind = "raise" THEN ExceptExceptionDoing(<<c1, c2>>, env.o2.exc, doing)
        ELSE Return(<<c1, c2>>, <<"<repository lines>">>)

\* env.file_ok: open(file_path) and file.read() succeed
app_upload_file(p, env) ==
    LET c1 == RemoteCall("gh.get_repo", [full_name |-> p.repo_name], env.o1)
        c2 == RemoteCall("repo.create_file",
                         [path |-> <<"<basename>">>, message |-> p.commit_message,
                          content |-> <<"<content>">>, branch |-> <<"m","a","i","n">>],
                         env.o2)
        doing == " uploading file"
    IN  IF env.o1.kind = "raise" THEN ExceptExceptionDoing(<<c1>>, env.o1.exc, doing)
        ELSE IF ~env.file_ok THEN ExceptExceptionDoing(<<c1>>, Exc("OSError", ""), doing)
        ELSE IF env.o2.kind = "raise" THEN ExceptExceptionDoing(<<c1, c2>>, env.o2.exc, doing)
        ELSE Return(<<c1, c2>>, <<"File ", "<basename>", " uploaded successfully to ">>
                                \o p.repo_name)

app_signature(name) ==
    CASE name = "create_repository" ->
            Signature(<<"name", "description", "private">>,
                      [description |-> <<>>, private |-> FALSE])
      [] name = "create_github_issue" -> Signature(<<"repo_name", "title", "body">>, EmptyDict)
      [] name = "list_repository_issues" -> Signature(<<"repo_name">>, EmptyDict)
      [] name = "list_repositories" -> Signature(<<"username">>, EmptyDict)
      [] name = "upload_file" ->
            Signature(<<"repo_name", "file_path", "commit_message">>,
                      [commit_message |-> <<"Add Python script">>])

app_body(name, p, env) ==
    CASE name = "create_repository" -> app_create_repository(p, env)
      [] name = "create_github_issue" -> app_create_github_issue(p, env)
      [] name = "list_repository_issues" -> app_list_repository_issues(p, env)
      [] name = "list_repositories" -> app_list_repositories(p, env)
      [] name = "upload_file" -> app_upload_file(p, env)

app_call(name, kwargs, env) ==
    IF Binds(app_signature(name), kwargs)
    THEN app_body(name, Bound(app_signature(name), kwargs), env)
    ELSE Raise(<<>>, Exc("TypeError", ""))

app_tools == <<
    Tool("create_repository", {"name", "description", "private"}, {"name"}),
    Tool("list_repositories", {"username"}, {"username"}),
    Tool("create_github_issue", {"repo_name", "title", "body"}, {"repo_name", "title", "body"}),
    Tool("list_repository_issues", {"repo_name"}, {"repo_name"}),
    Tool("upload_file", {"repo_name", "file_path", "commit_message"},
         {"repo_name", "file_path"}) >>

app_branches == <<
    Branch("upload_file", "upload_file", TRUE),
    Branch("create_repository", "create_repository", TRUE),
    Branch("list_repositories", "list_repositories", TRUE),
    Branch("create_github_issue", "create_github_issue", TRUE),
    Branch("list_repository_issues", "list_repository_issues", TRUE) >>

-----------------------------------------------------------------------------
(* What the language model may answer *)

\* the text of an argument payload, by what json.loads makes of it
JsonObject(dict) == [json |-> "object", dict |-> dict]
JsonArray == [json |-> "array", dict |-> EmptyDict]
JsonInvalid == [json |-> "invalid", dict |-> EmptyDict]

\* json_loads, were unparseable text read as an empty mapping
json_loads_lenient(text) ==
    [raised |-> FALSE, exc |-> NoExc, is_dict |-> text.json # "array", dict |-> text.dict]

\* json.loads(text): the parsed value, or JSONDecodeError
json_loads(text) ==
    IF text.json = "invalid"
    THEN [raised |-> TRUE, exc |-> Exc("JSONDecodeError", ""), is_dict |-> FALSE, dict |-> EmptyDict]
    ELSE [raised |-> FALSE, exc |-> NoExc, is_dict |-> text.json = "object", dict |-> text.dict]

ToolCall(name, arguments) == [name |-> name, arguments |-> arguments]

\* response.choices[0].message: tool_calls_attr says whether the attribute exists
\* ("absent"), is None ("none") or is a list ("list")
Message(tool_calls_attr, tool_calls, content) ==
    [tool_calls_attr |-> tool_calls_attr, tool_calls |-> tool_calls, content |-> content]

Names(tools) == {tools[i].name : i \in 1..Len(tools)}

\* operation names the model may ask for: both catalogs and one name in neither
RequestedNames == Names(unified_tools) \cup Names(app_tools) \cup {"delete_repository"}

\* the signature the model has in mind for a name
KnownSignature(name) ==
    IF name \in Names(unified_tools) THEN unified_signature(name)
    ELSE IF name \in Names(app_tools) THEN app_signature(name)
    ELSE Signature(<<>>, EmptyDict)

\* key sets the model may send for a signature: the required keys, all keys, the
\* required keys less one, all keys plus one that is no parameter
KeySets(sig) ==
    {Required(sig), ParamSet(sig), ParamSet(sig) \cup {"verbose"}}
    \cup {Required(sig) \ {k} : k \in Required(sig)}

ChannelValues == {<<"D","1">>, <<"C","1">>}
LimitValues == {5, 250}

ArgValue(k, channel, limit) ==
    CASE k = "channel" -> channel
      [] k = "limit" -> limit
      [] k \in {"private", "verbose"} -> TRUE
      [] k = "channel_id" -> <<"#","d","e","v">>
      [] k = "username" -> <<"o","c","t","o","c","a","t">>
      [] OTHER -> <<"v">>

KwargsOver(keys) ==
    {[k \in keys |-> ArgValue(k, channel, limit)] : channel \in ChannelValues, limit \in LimitValues}

Payloads(name) ==
    {JsonInvalid, JsonArray}
    \cup {JsonObject(kw) : kw \in UNION {KwargsOver(keys) : keys \in KeySets(KnownSignature(name))}}

FirstCalls == UNION {{ToolCall(name, a) : a \in Payloads(name)} : name \in RequestedNames}

\* tool calls the model may add after the first one
FurtherCalls ==
    {ToolCall("list_jira_projects", JsonObject(EmptyDict)),
     ToolCall("list_repositories", JsonObject([username |-> <<"o","c","t","o","c","a","t">>]))}

RECURSIVE FurtherLists(_)
FurtherLists(n) ==
    IF n = 0 THEN {<<>>}
    ELSE FurtherLists(n - 1)
         \cup {Append(l, c) : l \in {x \in FurtherLists(n - 1) : Len(x) = n - 1}, c \in FurtherCalls}

Reply == Str(<<"<reply>">>)

Messages ==
    {Message(a, <<>>, Reply) : a \in {"absent", "none", "list"}}
    \cup {Message("list", <<first>> \o rest, content) :
            first \in FirstCalls, rest \in FurtherLists(MaxToolCalls - 1),
            content \in {NoneValue, Reply}}

\* what client.chat.complete does: it returns a response or raises
Answered(message) == [raised |-> FALSE, message |-> message, exc |-> NoExc]
AnswerFailed == [raised |-> TRUE, message |-> Message("absent", <<>>, NoneValue),
                 exc |-> MistralFailure]

Answers == {Answered(m) : m \in Messages} \cup {AnswerFailed}

\* the environment of a handler call: what its remote calls and open() do
OutcomesOf(name) ==
    IF name \in {"create_repository", "list_repositories", "create_github_issue",
                 "list_repository_issues", "upload_file"} THEN GithubOutcomes
    ELSE IF name \in {"create_jira_issue", "list_jira_projects", "create_confluence_page",
                      "list_confluence_spaces"} THEN AtlassianOutcomes
    ELSE SlackOutcomes

\* the handlers that make a second remote call, and the one that reads a local file
TwoCallHandlers == {"create_repository", "list_repositories", "create_github_issue",
                    "list_repository_issues", "upload_file", "send_slack_message"}
FileHandlers == {"upload_file"}

\* o2 and file_ok vary only for the handlers that consult them
Envs(name) ==
    [o1 : OutcomesOf(name),
     o2 : IF name \in TwoCallHandlers THEN OutcomesOf(name) ELSE {OK},
     file_ok : IF name \in FileHandlers THEN BOOLEAN ELSE {TRUE}]

\* the environment of a turn in which no handler runs
NoEnv == [o1 |-> OK, o2 |-> OK, file_ok |-> TRUE]

\* the environments to consider for a model answer
EnvsOf(message) ==
    IF message.tool_calls # <<>> THEN Envs(message.tool_calls[1].name) ELSE {NoEnv}

-----------------------------------------------------------------------------
(* get_ai_response: the dispatcher *)

\* ChatRequest, were the result left in `response` by the turn before sent along
ChatRequest_with_context(prompt, tools) ==
    [model |-> "mistral-small-latest",
     messages |-> IF response.type = "str"
                  THEN <<[role |-> "assistant", content |-> response.str],
                         [role |-> "user", content |-> prompt]>>
                  ELSE <<[role |-> "user", content |-> prompt]>>,
     tools |-> tools,
     tool_choice |-> "auto"]

\* the request of client.chat.complete(model=..., messages=[...], tools=tools, ...)
ChatRequest(prompt, tools) ==
    [model |-> "mistral-small-latest",
     messages |-> <<[role |-> "user", content |-> prompt]>>,
     tools |-> tools,
     tool_choice |-> "auto"]

\* the handler bodies entered by evaluating name(**kwargs)
Entered(sig, name, kwargs) ==
    IF Binds(sig, kwargs) THEN <<[name |-> name, kwargs |-> kwargs]>> ELSE <<>>

\* what evaluating a piece of get_ai_response gives: the handler bodies entered, the
\* remote calls made, and the value returned or the exception let through
\* no handler call was evaluated
NoCall == [called |-> FALSE, name |-> "", raised |-> FALSE, value |-> NoneValue, exc |-> NoExc]

Eval(entered, r) ==
    [invoked |-> entered, handler |-> NoCall,
     calls |-> r.calls, raised |-> r.raised, value |-> r.value, exc |-> r.exc]

\* what evaluating the call name(**kwargs) gives, r being what the call did
Called(sig, name, kwargs, r) ==
    [invoked |-> Entered(sig, name, kwargs),
     handler |-> [called |-> TRUE, name |-> name, raised |-> r.raised, value |-> r.value,
                  exc |-> r.exc],
     calls |-> r.calls, raised |-> r.raised, value |-> r.value, exc |-> r.exc]

\* plain_reply, were the return statement to lose its value
plain_reply_lost(message) == NoneValue

\* return response.choices[0].message.content
plain_reply(message) == message.content

ReturnValue(v) == [calls |-> <<>>, raised |-> FALSE, value |-> v, exc |-> NoExc]

\* MatchIndex, were a name no branch tests for taken by the first branch
MatchIndex_default(branches, function_name) ==
    LET hits == {i \in 1..Len(branches) : branches[i].name = function_name}
    IN  IF hits = {} THEN 1 ELSE CHOOSE i \in hits : \A j \in hits : i <= j

\* index of the first branch of an if/elif chain whose test function_name == name
\* holds, 0 when none does
MatchIndex(branches, function_name) ==
    LET hits == {i \in 1..Len(branches) : branches[i].name = function_name}
    IN  IF hits = {} THEN 0 ELSE CHOOSE i \in hits : \A j \in hits : i <= j

\* hasattr(message, 'tool_calls') and message.tool_calls
has_tool_calls(message) ==
    /\ message.tool_calls_attr = "list"
    /\ message.tool_calls # <<>>

\* selected_tool_call, were the last tool call taken (tool_calls[-1])
selected_tool_call_last(message) == message.tool_calls[Len(message.tool_calls)]

\* tool_call = response.choices[0].message.tool_calls[0]
selected_tool_call(message) == message.tool_calls[1]

\* unified_app.py lines 589-627: the body of the `if` and the fall-through return
unified_dispatch(message, env) ==
    LET tool_call == selected_tool_call(message)
        function_name == tool_call.name
        parsed == json_loads(tool_call.arguments)
        i == MatchIndex(unified_branches, function_name)
        branch == unified_branches[i]
        kwargs == IF branch.with_args THEN parsed.dict ELSE EmptyDict
    IN  IF parsed.raised THEN Eval(<<>>, Raise(<<>>, parsed.exc))
        ELSE IF i = 0 THEN Eval(<<>>, ReturnValue(plain_reply(message)))
        ELSE IF branch.with_args /\ ~parsed.is_dict
        THEN Eval(<<>>, Raise(<<>>, Exc("TypeError", "")))
        ELSE Called(unified_signature(branch.target), branch.target, kwargs,
                    unified_call(branch.target, kwargs, env))

\* app.py lines 205-224: the chain assigns `result`, which is then printed and returned
app_dispatch(message, env) ==
    LET tool_call == selected_tool_call(message)
        function_name == tool_call.name
        parsed == json_loads(tool_call.arguments)
        i == MatchIndex(app_branches, function_name)
        branch == app_branches[i]
        kwargs == IF branch.with_args THEN parsed.dict ELSE EmptyDict
    IN  IF parsed.raised THEN Eval(<<>>, Raise(<<>>, parsed.exc))
        ELSE IF i = 0 THEN Eval(<<>>, Raise(<<>>, Exc("UnboundLocalError", "")))
        ELSE IF branch.with_args /\ ~parsed.is_dict
        THEN Eval(<<>>, Raise(<<>>, Exc("TypeError", "")))
        ELSE Called(app_signature(branch.target), branch.target, kwargs,
                    app_call(branch.target, kwargs, env))

\* the outer try/except Exception of get_ai_response around an evaluation
TopLevelExcept(e) ==
    IF e.raised /\ IsException(e.exc)
    THEN [e EXCEPT !.raised = FALSE, !.value = Str(ErrorString(e.exc)), !.exc = NoExc]
    ELSE e

\* get_ai_response(prompt) of unified_app.py, when client.chat.complete does `answer`
\* (returns a message or raises) and the handler's remote calls do env
unified_get_ai_response(answer, env) ==
    TopLevelExcept(
        IF answer.raised THEN Eval(<<>>, Raise(<<>>, answer.exc))
        ELSE IF has_tool_calls(answer.message) THEN unified_dispatch(answer.message, env)
        ELSE Eval(<<>>, ReturnValue(plain_reply(answer.message))))

\* get_ai_response(prompt) of app.py
app_get_ai_response(answer, env) ==
    TopLevelExcept(
        IF answer.raised THEN Eval(<<>>, Raise(<<>>, answer.exc))
        ELSE IF has_tool_calls(answer.message) THEN app_dispatch(answer.message, env)
        ELSE Eval(<<>>, ReturnValue(plain_reply(answer.message))))

-----------------------------------------------------------------------------
(* main(): the CLI loop *)

NoAnswer == [raised |-> FALSE, message |-> Message("absent", <<>>, NoneValue), exc |-> NoExc]

\* is_quit, were the input compared without .lower()
is_quit_exact(line) == line \in {S_quit, S_exit, S_q}

\* user_input.lower() in ['quit', 'exit', 'q']
is_quit(line) == lower(line) \in {S_quit, S_exit, S_q}

\* unified_branch, were "list channels" compared without .lower()
unified_branch_exact(line) ==
    LET low == lower(line)
    IN  IF is_quit(line) THEN "quit"
        ELSE IF line = S_list_channels THEN "list_channels"
        ELSE IF startswith(low, S_send_message) THEN "send_message"
        ELSE IF startswith(low, S_reply) THEN "reply"
        ELSE IF startswith(low, S_add_reaction) THEN "add_reaction"
        ELSE IF startswith(low, S_show_history) THEN "show_history"
        ELSE "model"

\* which arm of main()'s if/elif chain of unified_app.py takes an input line
unified_branch(line) ==
    LET low == lower(line)
    IN  IF is_quit(line) THEN "quit"
        ELSE IF low = S_list_channels THEN "list_channels"
        ELSE IF startswith(low, S_send_message) THEN "send_message"
        ELSE IF startswith(low, S_reply) THEN "reply"
        ELSE IF startswith(low, S_add_reaction) THEN "add_reaction"
        ELSE IF startswith(low, S_show_history) THEN "show_history"
        ELSE "model"

\* which arm of main() of app.py takes an input line
app_branch(line) == IF is_quit(line) THEN "quit" ELSE "model"

Init ==
    /\ app \in {"app.py", "unified_app.py"}
    /\ pc = "input"
    /\ user_input = <<>>
    /\ requests = <<>>
    /\ llm = NoAnswer
    /\ invoked = <<>>
    /\ handler_result = NoCall
    /\ remote = <<>>
    /\ response = NoneValue
    /\ output = <<>>
    /\ turn = 0

\* user_input = input("\nYou: "): a new turn begins; `response` keeps the value the
\* turn before left in it
ReadInput ==
    /\ pc = "input"
    /\ turn < MaxTurns
    /\ turn' = turn + 1
    /\ \E line \in InputLines : user_input' = line
    /\ pc' = "branch"
    /\ requests' = <<>>
    /\ llm' = NoAnswer
    /\ invoked' = <<>>
    /\ handler_result' = NoCall
    /\ remote' = <<>>
    /\ output' = <<>>
    /\ UNCHANGED <<app, response>>

\* print("\nGoodbye!"); break
unified_quit ==
    /\ app = "unified_app.py"
    /\ pc = "branch"
    /\ unified_branch(user_input) = "quit"
    /\ pc' = "exited"
    /\ UNCHANGED <<app, user_input, requests, llm, invoked, handler_result, remote, response, output, turn>>

app_quit ==
    /\ app = "app.py"
    /\ pc = "branch"
    /\ app_branch(user_input) = "quit"
    /\ pc' = "exited"
    /\ UNCHANGED <<app, user_input, requests, llm, invoked, handler_result, remote, response, output, turn>>

\* an arm of main() evaluated to e: `response` is assigned, or the exception leaves main()
Assign(e) ==
    /\ invoked' = e.invoked
    /\ handler_result' = e.handler
    /\ remote' = e.calls
    /\ response' = e.value
    /\ pc' = IF e.raised THEN "crashed" ELSE "print"

\* response = get_ai_response(user_input), unified_app.py
unified_model ==
    /\ app = "unified_app.py"
    /\ pc = "branch"
    /\ unified_branch(user_input) = "model"
    /\ \E answer \in Answers :
         \E env \in EnvsOf(answer.message) :
            /\ requests' = <<ChatRequest(user_input, unified_tools)>>
            /\ llm' = answer
            /\ Assign(unified_get_ai_response(answer, env))
    /\ UNCHANGED <<app, user_input, output, turn>>

\* response = get_ai_response(user_input), app.py
app_model ==
    /\ app = "app.py"
    /\ pc = "branch"
    /\ app_branch(user_input) = "model"
    /\ \E answer \in Answers :
         \E env \in EnvsOf(answer.message) :
            /\ requests' = <<ChatRequest(user_input, app_tools)>>
            /\ llm' = answer
            /\ Assign(app_get_ai_response(answer, env))
    /\ UNCHANGED <<app, user_input, output, turn>>

\* a bare `except:` around an evaluation: the usage text replaces whatever was raised
BareExcept(e, usage) ==
    IF e.raised
    THEN [e EXCEPT !.raised = FALSE, !.value = Str(usage), !.exc = NoExc]
    ELSE e

\* the call name(*args) made by main()
unified_positional_call(name, args, env) ==
    LET kwargs == Positional(unified_signature(name), args)
    IN  Called(unified_signature(name), name, kwargs, unified_call(name, kwargs, env))

\* response = slack_list_channels()
unified_list_channels_arm(line, env) ==
    unified_positional_call("slack_list_channels", <<>>, env)

\* lines 654-660
unified_send_message_arm(line, env) ==
    LET parts == split(line, S_to, 1)
        message == strip(replace(parts[1], S_send_message, <<>>))
        channel == strip(parts[2])
    IN  IF Len(parts) = 2
        THEN unified_positional_call("slack_post_message", <<channel, message>>, env)
        ELSE Eval(<<>>, ReturnValue(Str(<<"Please use format: send message <text> to <channel>">>)))

\* lines 663-670
unified_reply_arm(line, env) ==
    LET first == split(line, S_to_thread, 1)
        parts == split(first[2], S_in, -1)
        thread_ts == strip(parts[1])
        channel == strip(parts[2])
        text == strip(replace(split(line, S_to_thread, -1)[1], S_reply, <<>>))
    IN  BareExcept(
            IF Len(first) < 2 \/ Len(parts) < 2
            THEN Eval(<<>>, Raise(<<>>, Exc("IndexError", "")))
            ELSE unified_positional_call("slack_reply_to_thread", <<channel, thread_ts, text>>, env),
            <<"Please use format: reply <text> to thread <thread_ts> in <channel>">>)

\* lines 673-680
unified_add_reaction_arm(line, env) ==
    LET first == split(line, S_to_message, 1)
        parts == split(first[2], S_in, -1)
        ts == strip(parts[1])
        channel == strip(parts[2])
        reaction == strip(replace(split(line, S_to_message, -1)[1], S_add_reaction, <<>>))
    IN  BareExcept(
            IF Len(first) < 2 \/ Len(parts) < 2
            THEN Eval(<<>>, Raise(<<>>, Exc("IndexError", "")))
            ELSE unified_positional_call("slack_add_reaction", <<channel, ts, reaction>>, env),
            <<"Please use format: add reaction <emoji> to message <ts> in <channel>">>)

\* lines 682-688
unified_show_history_arm(line, env) ==
    LET parts == split_ws(strip(replace(line, S_show_history, <<>>)))
        channel == parts[1]
        limit == IF Len(parts) > 1 THEN int(parts[2]) ELSE 10
    IN  BareExcept(
            IF Len(parts) < 1 THEN Eval(<<>>, Raise(<<>>, Exc("IndexError", "")))
            ELSE IF Len(parts) > 1 /\ ~int_ok(parts[2])
            THEN Eval(<<>>, Raise(<<>>, Exc("ValueError", "")))
            ELSE unified_positional_call("slack_get_channel_history", <<channel, limit>>, env),
            <<"Please use format: show history <channel> [limit]">>)

\* the arm of main() that handles a local command
unified_arm(kind, line, env) ==
    CASE kind = "list_channels" -> unified_list_channels_arm(line, env)
      [] kind = "send_message" -> unified_send_message_arm(line, env)
      [] kind = "reply" -> unified_reply_arm(line, env)
      [] kind = "add_reaction" -> unified_add_reaction_arm(line, env)
      [] kind = "show_history" -> unified_show_history_arm(line, env)

Shortcut(kind) ==
    /\ app = "unified_app.py"
    /\ pc = "branch"
    /\ unified_branch(user_input) = kind
    /\ \E env \in Envs("slack_list_channels") : Assign(unified_arm(kind, user_input, env))
    /\ UNCHANGED <<app, user_input, requests, llm, output, turn>>

unified_list_channels == Shortcut("list_channels")
unified_send_message == Shortcut("send_message")
unified_reply == Shortcut("reply")
unified_add_reaction == Shortcut("add_reaction")
unified_show_history == Shortcut("show_history")

\* print("\n" + response): concatenating a str and None raises TypeError, uncaught
unified_print ==
    /\ app = "unified_app.py"
    /\ pc = "print"
    /\ IF response.type = "str"
       THEN output' = <<"\n">> \o response.str /\ pc' = "input"
       ELSE output' = <<>> /\ pc' = "crashed"
    /\ UNCHANGED <<app, user_input, requests, llm, invoked, handler_result, remote, response, turn>>

\* for line in textwrap.wrap(response, width=70): print(line); wrap(None) raises, uncaught
app_print ==
    /\ app = "app.py"
    /\ pc = "print"
    /\ IF response.type = "str"
       THEN output' = <<"AI: ">> \o response.str /\ pc' = "input"
       ELSE output' = <<>> /\ pc' = "crashed"
    /\ UNCHANGED <<app, user_input, requests, llm, invoked, handler_result, remote, response, turn>>

Next ==
    \/ ReadInput
    \/ unified_quit
    \/ unified_list_channels
    \/ unified_send_message
    \/ unified_reply
    \/ unified_add_reaction
    \/ unified_show_history
    \/ unified_model
    \/ unified_print
    \/ app_quit
    \/ app_model
    \/ app_print

Spec == Init /\ [][Next]_vars

-----------------------------------------------------------------------------
(* Vocabulary of the properties *)

\* get_ai_response has run in the current turn
ModelTurnDone == requests # <<>>

\* the catalog and the signatures of the running program
Tools == IF app = "app.py" THEN app_tools ELSE unified_tools
SignatureOf(name) == IF app = "app.py" THEN app_signature(name) ELSE unified_signature(name)

\* the model answered with at least one tool call
ToolRequested ==
    /\ ModelTurnDone
    /\ ~llm.raised
    /\ llm.message.tool_calls_attr = "list"
    /\ llm.message.tool_calls # <<>>

FirstCall == llm.message.tool_calls[1]

\* the first tool call names a catalog entry and its payload parses as a mapping
CatalogRequest ==
    /\ ToolRequested
    /\ FirstCall.name \in Names(Tools)
    /\ FirstCall.arguments.json = "object"

\* a mapping lacks a required keyword of a signature, or carries one it does not accept
Malformed(sig, dict) ==
    \/ \E k \in Required(sig) : k \notin DOMAIN dict
    \/ \E k \in DOMAIN dict : k \notin ParamSet(sig)

\* a value is a string beginning with "Error:"
BeginsWithError(v) ==
    /\ v.type = "str"
    /\ Len(v.str) >= 2
    /\ v.str[1] = "Error"
    /\ v.str[2] = ":"

\* "Error: <message>" for the message of exception e
TopLevelError(e) == Str(<<"Error", ":", " ">> \o e.msg)

\* some remote call of the current turn raised
RemoteRaised == \E i \in 1..Len(remote) : remote[i].outcome.kind = "raise"

\* the operations unified_app.py calls without the model's arguments
NoArgumentOps == {"list_jira_projects", "list_confluence_spaces"}

\* the keywords the dispatcher passes for the first tool call
PassedKeywords ==
    IF app = "unified_app.py" /\ FirstCall.name \in NoArgumentOps
    THEN EmptyDict
    ELSE FirstCall.arguments.dict

-----------------------------------------------------------------------------
(* C1 *)

\* C1 as stated: whenever the first tool call names a catalog operation and its
\* payload is a JSON mapping, the handler of that name is invoked with exactly that
\* mapping as keyword arguments and get_ai_response returns the handler's string.
C1_AsStated ==
    CatalogRequest =>
        /\ invoked = <<[name |-> FirstCall.name, kwargs |-> FirstCall.arguments.dict]>>
        /\ handler_result.called
        /\ ~handler_result.raised
        /\ response = handler_result.value

\* C1 amended: when the keywords the dispatcher passes (the mapping; nothing for
\* list_jira_projects and list_confluence_spaces of unified_app.py) fit the handler's
\* signature, the handler of the same name is invoked with exactly those keywords,
\* and get_ai_response returns the handler's string unchanged, or "Error: <message>"
\* when the handler lets an exception through.
C1_DispatchesByName ==
    (CatalogRequest /\ ~Malformed(SignatureOf(FirstCall.name), PassedKeywords)) =>
        /\ invoked = <<[name |-> FirstCall.name, kwargs |-> PassedKeywords]>>
        /\ handler_result.called
        /\ handler_result.name = FirstCall.name
        /\ IF handler_result.raised
           THEN response = TopLevelError(handler_result.exc)
           ELSE response = handler_result.value

\* list_repositories asked for {"username": "octocat"}, and its listing returned
C1_Witness ==
    /\ CatalogRequest
    /\ FirstCall.name = "list_repositories"
    /\ FirstCall.arguments.dict = [username |-> <<"o","c","t","o","c","a","t">>]
    /\ invoked = <<[name |-> "list_repositories",
                    kwargs |-> [username |-> <<"o","c","t","o","c","a","t">>]]>>
    /\ response = Str(<<"<repository lines>">>)

-----------------------------------------------------------------------------
(* C2 *)

\* C2: a model response with no tool-call field, or with an empty tool-call list,
\* invokes no handler, makes no remote call, and its text content is returned unchanged.
C2_PlainReplyReturned ==
    (/\ ModelTurnDone
     /\ ~llm.raised
     /\ \/ llm.message.tool_calls_attr = "absent"
        \/ llm.message.tool_calls_attr = "list" /\ llm.message.tool_calls = <<>>) =>
        /\ invoked = <<>>
        /\ ~handler_result.called
        /\ remote = <<>>
        /\ response = llm.message.content

\* an answer with an empty tool-call list whose text was returned and printed
C2_Witness ==
    /\ ModelTurnDone
    /\ ~llm.raised
    /\ llm.message.tool_calls_attr = "list"
    /\ llm.message.tool_calls = <<>>
    /\ response = Reply
    /\ pc = "input"
    /\ output # <<>>

-----------------------------------------------------------------------------
(* C3 *)

\* C3 as stated: whenever a remote call of a handler raises, whatever the exception
\* type, the handler returns a string beginning with "Error:" and lets no exception
\* through to its caller.
C3_AsStated ==
    (handler_result.called /\ RemoteRaised) =>
        /\ ~handler_result.raised
        /\ BeginsWithError(handler_result.value)

-----------------------------------------------------------------------------
(* C4 *)

\* the line read is a quit token in any letter case
QuitRead == LET low == lower(user_input) IN \E token \in {S_quit, S_exit, S_q} : low = token

\* C4: once a line equal, case-insensitively, to "quit", "exit" or "q" is read, the
\* turn makes no model call, no handler call and no remote call, and the only step
\* left is the one that ends the loop: nothing is read or called after it.
C4_QuitTerminates ==
    /\ [](QuitRead => /\ requests = <<>>
                      /\ invoked = <<>>
                      /\ ~handler_result.called
                      /\ remote = <<>>
                      /\ pc \in {"branch", "exited"})
    /\ [][QuitRead => /\ pc = "branch"
                      /\ pc' = "exited"
                      /\ UNCHANGED <<user_input, requests, llm, invoked, handler_result, remote>>]_vars

\* the loop has ended on "QUIT"
C4_Witness ==
    /\ pc = "exited"
    /\ user_input = <<"Q","U","I","T">>

-----------------------------------------------------------------------------
(* C5 *)

\* the line is one the unified CLI loop handles as a local command
ShortcutLine(line) ==
    LET low == lower(line)
    IN  \/ low = S_list_channels
        \/ \E prefix \in {S_send_message, S_reply, S_add_reaction, S_show_history} :
              startswith(low, prefix)

\* the current turn of unified_app.py has computed its result (or died doing so)
UnifiedTurnDone ==
    /\ app = "unified_app.py"
    /\ user_input # <<>>
    /\ ~QuitRead
    /\ pc \in {"print", "input", "crashed"}

\* C5: in the unified CLI loop a turn handled as a local command never calls the
\* language model, well formed or not; any other input that is no quit token is sent
\* to the model exactly once.
C5_ShortcutsBypassModel ==
    UnifiedTurnDone =>
        IF ShortcutLine(user_input)
        THEN requests = <<>> /\ llm = NoAnswer
        ELSE Len(requests) = 1 /\ requests[1].messages[1].content = user_input

\* "List Channels" was handled locally, and the listing printed without a model call
C5_Witness ==
    /\ UnifiedTurnDone
    /\ user_input = <<"L","i","s","t"," ","C","h","a","n","n","e","l","s">>
    /\ requests = <<>>
    /\ handler_result.name = "slack_list_channels"
    /\ pc = "input"
    /\ output # <<>>

-----------------------------------------------------------------------------
(* C6 *)

\* the remote-call logs the handler `name` can produce when called with kwargs
CallLogs(name, kwargs) ==
    {(IF app = "app.py" THEN app_call(name, kwargs, env) ELSE unified_call(name, kwargs, env)).calls :
        env \in Envs(name)}

\* C6: when the model proposes tool calls, get_ai_response evaluates at most one
\* handler call, that of the handler named by the first tool call, and every remote
\* call of the turn is one that handler makes; the other tool calls cause nothing.
C6_OnlyFirstToolCall ==
    ToolRequested =>
        /\ Len(invoked) <= 1
        /\ \A i \in 1..Len(invoked) : invoked[i].name = FirstCall.name
        /\ handler_result.called => handler_result.name = FirstCall.name
        /\ IF invoked = <<>>
           THEN remote = <<>>
           ELSE remote \in CallLogs(FirstCall.name, invoked[1].kwargs)

\* two tool calls were proposed, slack_get_users then list_jira_projects, and only
\* slack_get_users ran
C6_Witness ==
    /\ ToolRequested
    /\ Len(llm.message.tool_calls) = 2
    /\ FirstCall.name = "slack_get_users"
    /\ llm.message.tool_calls[2].name = "list_jira_projects"
    /\ Len(invoked) = 1
    /\ invoked[1].name = "slack_get_users"
    /\ Len(remote) = 1
    /\ remote[1].api = "slack_client.users_list"

-----------------------------------------------------------------------------
(* C7 *)

TestedNames(branches) == {branches[i].name : i \in 1..Len(branches)}

\* the names of a catalog and the names a chain tests are the same set, neither has
\* a duplicate, and each branch calls the handler it tests for
CatalogMatchesChain(tools, branches) ==
    /\ Names(tools) = TestedNames(branches)
    /\ Cardinality(Names(tools)) = Len(tools)
    /\ Cardinality(TestedNames(branches)) = Len(branches)
    /\ \A i \in 1..Len(branches) : branches[i].target = branches[i].name

\* C7: in each program the catalog names and the names the dispatcher's chain tests
\* are the same set without duplicates; accordingly a requested name leads to a
\* handler call exactly when it is in the catalog, and then to the handler so named.
C7_CatalogEqualsDispatch ==
    /\ CatalogMatchesChain(app_tools, app_branches)
    /\ CatalogMatchesChain(unified_tools, unified_branches)
    /\ (ToolRequested /\ FirstCall.arguments.json = "object") =>
          /\ handler_result.called <=> FirstCall.name \in Names(Tools)
          /\ handler_result.called => handler_result.name = FirstCall.name

\* the last entry of the unified catalog was requested and its handler ran
C7_Witness ==
    /\ app = "unified_app.py"
    /\ ToolRequested
    /\ FirstCall.name = unified_tools[Len(unified_tools)].name
    /\ FirstCall.arguments.json = "object"
    /\ handler_result.called
    /\ handler_result.name = "slack_get_channel_history"
    /\ invoked # <<>>

-----------------------------------------------------------------------------
(* C8 *)

\* C8 as stated: in the unified CLI loop a remote call that raises never ends the
\* loop, on the model path or on a local-command path: the turn has a text result,
\* which is printed before the next input is read.
C8_AsStated ==
    (app = "unified_app.py" /\ RemoteRaised) =>
        /\ pc # "crashed"
        /\ response.type = "str"
        /\ pc = "input" => output # <<>>

-----------------------------------------------------------------------------
(* C9 *)

GithubHandlers == {"create_repository", "list_repositories", "create_github_issue",
                   "list_repository_issues", "upload_file"}

\* the Slack handlers whose only except clause is `except SlackApiError`
SlackApiErrorOnly == {"upload_file_to_slack", "slack_get_thread_replies", "slack_get_users",
                      "slack_get_user_profile", "slack_list_channels",
                      "slack_reply_to_thread", "slack_add_reaction",
                      "slack_get_channel_history"}

\* the handler entered in the current turn
Handler == invoked[1]

-----------------------------------------------------------------------------
(* C10 *)

\* the turn ended in the top-level error string of a TypeError raised by the call
\* itself: no handler body entered, no remote call made
CallRejected ==
    /\ invoked = <<>>
    /\ remote = <<>>
    /\ handler_result.called
    /\ handler_result.raised
    /\ handler_result.exc.type = "TypeError"
    /\ response = TopLevelError(handler_result.exc)

\* C10 as stated: whenever the mapping lacks a keyword the requested handler requires,
\* or carries one it does not accept, the call raises before any remote call, outside
\* the handler's try, and the turn's response is "Error: <message>".
C10_AsStated ==
    (CatalogRequest /\ Malformed(SignatureOf(FirstCall.name), FirstCall.arguments.dict))
        => CallRejected

\* C10 amended: the same, for every operation that the dispatcher calls with the
\* mapping; list_jira_projects and list_confluence_spaces of unified_app.py are called
\* with no argument, so whatever the mapping holds their body runs and makes its
\* remote call.
C10_MalformedArgumentsRejected ==
    (CatalogRequest /\ Malformed(SignatureOf(FirstCall.name), FirstCall.arguments.dict)) =>
        IF app = "unified_app.py" /\ FirstCall.name \in NoArgumentOps
        THEN /\ invoked = <<[name |-> FirstCall.name, kwargs |-> EmptyDict]>>
             /\ Len(remote) = 1
             /\ ~handler_result.raised
        ELSE CallRejected

\* create_repository asked for without its required "name": rejected, nothing called
C10_Witness ==
    /\ CatalogRequest
    /\ FirstCall.name = "create_repository"
    /\ "name" \notin DOMAIN FirstCall.arguments.dict
    /\ CallRejected
    /\ pc = "input"
    /\ output # <<>>

-----------------------------------------------------------------------------
(* C11 *)

\* the first tool call's argument payload is text json.loads rejects
UnparseableRequest ==
    /\ ToolRequested
    /\ FirstCall.arguments.json = "invalid"

\* C11: when the argument payload of the first tool call is not parseable JSON, no
\* handler call is evaluated, no handler body is entered, no remote call is made, and
\* the result of the turn is "Error: <message>", the message being that of the
\* JSONDecodeError; this whatever operation the tool call names.
C11_UnparseableArguments ==
    UnparseableRequest =>
        /\ invoked = <<>>
        /\ ~handler_result.called
        /\ remote = <<>>
        /\ response = TopLevelError(Exc("JSONDecodeError", ""))
        /\ pc \in {"print", "input"}

\* create_repository asked for with unparseable arguments: the error string was the
\* result of the turn and was printed
C11_Witness ==
    /\ UnparseableRequest
    /\ FirstCall.name = "create_repository"
    /\ invoked = <<>>
    /\ remote = <<>>
    /\ BeginsWithError(response)
    /\ pc = "input"
    /\ output # <<>>

-----------------------------------------------------------------------------
(* C12 *)

\* the handler bodies a model answer leads to, computed from the answer alone
\* (list_jira_projects and list_confluence_spaces of unified_app.py are called for
\* any payload that parses, the others for a payload that is a mapping)
InvocationOfAnswer ==
    IF /\ ToolRequested
       /\ FirstCall.name \in Names(Tools)
       /\ \/ FirstCall.arguments.json = "object"
          \/ /\ FirstCall.arguments.json = "array"
             /\ app = "unified_app.py"
             /\ FirstCall.name \in NoArgumentOps
       /\ ~Malformed(SignatureOf(FirstCall.name), PassedKeywords)
    THEN <<[name |-> FirstCall.name, kwargs |-> PassedKeywords]>>
    ELSE <<>>

\* C12: in every turn, whatever the turns before it were and whatever they left
\* behind, the request sent to the model is one request of exactly one user message
\* holding the current input line, with the program's fixed catalog, and the handler
\* invocation is determined by the model's answer alone.  Neither depends on the
\* number of earlier turns or on their results, so two runs with different earlier
\* turns send the same request for the same line and make the same invocation for
\* the same answer.
C12_NoStateBetweenTurns ==
    ModelTurnDone =>
        /\ requests = <<[model |-> "mistral-small-latest",
                         messages |-> <<[role |-> "user", content |-> user_input]>>,
                         tools |-> Tools,
                         tool_choice |-> "auto"]>>
        /\ invoked = InvocationOfAnswer

\* a second turn, after a first one that was completed: its request holds the line
\* "hello" alone and the handler the model asked for was invoked
C12_Witness ==
    /\ turn = 2
    /\ ModelTurnDone
    /\ user_input = <<"h","e","l","l","o">>
    /\ Len(requests) = 1
    /\ requests[1].messages = <<[role |-> "user", content |-> <<"h","e","l","l","o">>]>>
    /\ invoked = <<[name |-> "list_repositories",
                    kwargs |-> [username |-> <<"o","c","t","o","c","a","t">>]]>>

-----------------------------------------------------------------------------
(* C13 *)

\* C13 as stated: whatever the model answers and whatever the remote calls do,
\* get_ai_response returns a string, and printing the result of the turn never fails.
C13_AsStated ==
    ModelTurnDone =>
        /\ response.type = "str"
        /\ pc \in {"print", "input"}

-----------------------------------------------------------------------------
(* C14 *)

\* index of the last occurrence of sub in s, 0 if none
LastFind(s, sub) ==
    LET hits == {i \in 1..(Len(s) - Len(sub) + 1) : SubSeq(s, i, i + Len(sub) - 1) = sub}
    IN  IF hits = {} THEN 0 ELSE CHOOSE i \in hits : \A j \in hits : j <= i

\* the line starts with "send message" in some letter case
SendMessageLine(line) == LET low == lower(line) IN startswith(low, S_send_message)

\* "send message <text> to <channel>": the prefix in any letter case and a blank, a
\* text that is not empty, the separator " to ", and a channel; the channel is what
\* follows the last separator, so that the text may hold " to " itself
SendMessageForm(line) ==
    LET low == lower(line)
        k == LastFind(line, S_to)
    IN  /\ startswith(low, S_send_message \o <<" ">>)
        /\ k >= Len(S_send_message) + 2
        /\ k + Len(S_to) <= Len(line)

TextOfSendMessage(line) == SubSeq(line, Len(S_send_message) + 2, LastFind(line, S_to) - 1)
ChannelOfSendMessage(line) == SubSeq(line, LastFind(line, S_to) + Len(S_to), Len(line))

SendMessageUsage == Str(<<"Please use format: send message <text> to <channel>">>)

\* C14 as stated: for a line "send message <text> to <channel>", in any letter case of
\* the prefix and with any text that is not empty, slack_post_message is called with
\* channel_id = <channel> and text = <text>; a line starting with "send message" that
\* has no " to " gives the usage string and makes no remote call.
C14_AsStated ==
    (UnifiedTurnDone /\ SendMessageLine(user_input)) =>
        /\ SendMessageForm(user_input) =>
              invoked = <<[name |-> "slack_post_message",
                           kwargs |-> [channel_id |-> ChannelOfSendMessage(user_input),
                                       text |-> TextOfSendMessage(user_input)]]>>
        /\ LastFind(user_input, S_to) = 0 =>
              /\ response = SendMessageUsage
              /\ invoked = <<>>
              /\ remote = <<>>

-----------------------------------------------------------------------------
(* C15 *)

\* the line starts with "reply" in some letter case
ReplyLine(line) == LET low == lower(line) IN startswith(low, S_reply)

\* "reply <text> to thread <thread_ts> in <channel>": the text is what stands between
\* "reply " and the last " to thread ", the channel what follows the last " in "
ReplyForm(line) ==
    LET k == LastFind(line, S_to_thread)
        m == LastFind(line, S_in)
    IN  /\ startswith(line, S_reply \o <<" ">>)
        /\ k >= Len(S_reply) + 2
        /\ m > k + Len(S_to_thread)
        /\ m + Len(S_in) <= Len(line)

TextOfReply(line) == SubSeq(line, Len(S_reply) + 2, LastFind(line, S_to_thread) - 1)
ThreadOfReply(line) ==
    SubSeq(line, LastFind(line, S_to_thread) + Len(S_to_thread), LastFind(line, S_in) - 1)
ChannelOfReply(line) == SubSeq(line, LastFind(line, S_in) + Len(S_in), Len(line))

ReplyUsage == Str(<<"Please use format: reply <text> to thread <thread_ts> in <channel>">>)

\* C15 as stated: for a line "reply <text> to thread <thread_ts> in <channel>",
\* slack_reply_to_thread is called with exactly that channel, thread_ts and text, the
\* text unaltered even when it holds the word "reply" or " in "; a line starting with
\* "reply" that lacks " to thread " or " in " gives the usage string and makes no
\* remote call.
C15_AsStated ==
    (UnifiedTurnDone /\ ReplyLine(user_input)) =>
        /\ ReplyForm(user_input) =>
              invoked = <<[name |-> "slack_reply_to_thread",
                           kwargs |-> [channel_id |-> ChannelOfReply(user_input),
                                       thread_ts |-> ThreadOfReply(user_input),
                                       text |-> TextOfReply(user_input)]]>>
        /\ (LastFind(user_input, S_to_thread) = 0 \/ LastFind(user_input, S_in) = 0) =>
              /\ response = ReplyUsage
              /\ invoked = <<>>
              /\ remote = <<>>

-----------------------------------------------------------------------------
(* C16 *)

\* the handlers that list with a limit, and the Slack methods they call
LimitedHandlers == {"slack_list_channels", "slack_get_users"}
LimitedMethods == {"slack_client.conversations_list", "slack_client.users_list"}

\* the limit the current handler call was given: the one supplied, else the default
LimitGiven == IF "limit" \in DOMAIN Handler.kwargs THEN Handler.kwargs.limit ELSE 100

\* C16: whenever slack_list_channels or slack_get_users runs, with an integer limit
\* from the model or with the default 100, its remote call receives the limit when
\* that is at most 200 and 200 otherwise; no call of conversations_list or users_list
\* ever carries a limit above 200.
C16_LimitCapped ==
    /\ (invoked # <<>> /\ Handler.name \in LimitedHandlers) =>
          /\ Len(remote) = 1
          /\ remote[1].api \in LimitedMethods
          /\ remote[1].args.limit = (IF LimitGiven > 200 THEN 200 ELSE LimitGiven)
    /\ \A i \in 1..Len(remote) :
          remote[i].api \in LimitedMethods => remote[i].args.limit <= 200

\* the model asked slack_get_users for 250 users and users_list was called with 200
C16_Witness ==
    /\ invoked # <<>>
    /\ Handler.name = "slack_get_users"
    /\ "limit" \in DOMAIN Handler.kwargs
    /\ Handler.kwargs.limit = 250
    /\ Len(remote) = 1
    /\ remote[1].api = "slack_client.users_list"
    /\ remote[1].args.limit = 200

-----------------------------------------------------------------------------
(* C17 *)

\* send_slack_message runs in the current turn
SendSlackMessageRuns == invoked # <<>> /\ Handler.name = "send_slack_message"

\* positions in the turn's log of the calls of a Slack method
CallsOf(api) == {i \in 1..Len(remote) : remote[i].api = api}

\* C17: in send_slack_message, for a channel starting with 'D' the first remote call
\* opens the conversation with that user; a message is posted only after it, only if
\* the open call reported ok, and then to the channel id the open call returned; if
\* the open call reports not ok nothing is posted and a string "Error opening
\* conversation: ..." is returned.  For any other channel no conversation is opened
\* and the one remote call posts the message to the channel as given.
C17_OpenBeforePost ==
    SendSlackMessageRuns =>
        IF startswith(Handler.kwargs.channel, <<"D">>)
        THEN /\ CallsOf("slack_client.conversations_open") = {1}
             /\ remote[1].args = [users |-> <<Handler.kwargs.channel>>]
             /\ CallsOf("slack_client.chat_postMessage") =
                    (IF remote[1].outcome.kind = "ok" THEN {2} ELSE {})
             /\ Len(remote) = (IF remote[1].outcome.kind = "ok" THEN 2 ELSE 1)
             /\ Len(remote) = 2 =>
                    remote[2].args = [channel |-> <<"<conversation.channel.id>">>,
                                      text |-> Handler.kwargs.text]
             /\ remote[1].outcome.kind = "not_ok" =>
                    /\ ~handler_result.raised
                    /\ SubSeq(handler_result.value.str, 1, 3) = <<"Error", " opening conversation", ":">>
        ELSE /\ CallsOf("slack_client.conversations_open") = {}
             /\ CallsOf("slack_client.chat_postMessage") = {1}
             /\ Len(remote) = 1
             /\ remote[1].args = [channel |-> Handler.kwargs.channel, text |-> Handler.kwargs.text]

\* a message for the user D1 whose conversation could not be opened: one remote call,
\* nothing posted, the error string returned and printed
C17_Witness ==
    /\ SendSlackMessageRuns
    /\ Handler.kwargs.channel = <<"D", "1">>
    /\ Len(remote) = 1
    /\ remote[1].api = "slack_client.conversations_open"
    /\ remote[1].outcome.kind = "not_ok"
    /\ response = Str(<<"Error", " opening conversation", ":", " ", "<error>">>)
    /\ pc = "input"

-----------------------------------------------------------------------------
(* C18 *)

\* the first tool call names an operation that is not in the program's catalog
UncataloguedRequest ==
    /\ ToolRequested
    /\ FirstCall.name \notin Names(Tools)

\* what get_ai_response returns for an uncatalogued name: the error string of the
\* JSONDecodeError when the payload does not parse; otherwise unified_app.py falls
\* through its chain to `return ...message.content`, and app.py reaches
\* print("Function result:", result) with `result` unbound, which its except clause
\* turns into an error string
ReturnedForUncatalogued ==
    IF FirstCall.arguments.json = "invalid" THEN TopLevelError(Exc("JSONDecodeError", ""))
    ELSE IF app = "app.py" THEN TopLevelError(Exc("UnboundLocalError", ""))
    ELSE llm.message.content

\* C18: when the first tool call names an operation that is not in the catalog,
\* get_ai_response evaluates no handler call, enters no handler body, makes no remote
\* call, and returns a value without raising, in app.py and in unified_app.py; if the
\* turn fails afterwards it is in printing a value that is no string.
C18_UncataloguedName ==
    UncataloguedRequest =>
        /\ invoked = <<>>
        /\ ~handler_result.called
        /\ remote = <<>>
        /\ response = ReturnedForUncatalogued
        /\ pc \in {"print", "input", "crashed"}
        /\ pc = "crashed" => response.type # "str"
        /\ pc = "input" => response.type = "str"

\* app.py asked for "delete_repository", which it has no handler for: the turn's
\* result was an error string, printed, and nothing was called
C18_Witness ==
    /\ app = "app.py"
    /\ UncataloguedRequest
    /\ FirstCall.name = "delete_repository"
    /\ FirstCall.arguments.json = "object"
    /\ invoked = <<>>
    /\ remote = <<>>
    /\ BeginsWithError(response)
    /\ pc = "input"
    /\ output # <<>>

====
